---- MODULE Spec2Model ----
(***************************************************************************)
(* Motorcycle kickstand alarm (src/src/main.cpp).                          *)
(*                                                                         *)
(* main.cpp registers seven states, their callbacks and thirteen guarded   *)
(* transitions with a TinyStateMachine, starts it in setup() and calls     *)
(* tsm.loop() from loop().  The device is modelled together with its       *)
(* power supply: a power loss keeps the EEPROM byte and nothing else.      *)
(*                                                                         *)
(* The millisecond counter and state_change_time are unsigned 32-bit       *)
(* values.  They are held as two 16-bit limbs <<hi, lo>> (value            *)
(* hi * 2^16 + lo) and all arithmetic on them is modulo 2^32.              *)
(***************************************************************************)
EXTENDS Integers, Sequences, FiniteSets, TLC

VARIABLES
    current,            \* the state machine's current state, "NONE" while unpowered
    alarm_triggered,    \* state_data.alarm_triggered
    state_change_time,  \* state_data.state_change_time (32-bit, limbs)
    relay,              \* level of ALARM_PIN (TRUE = HIGH)
    led,                \* colour last given to set_status_led
    eeprom,             \* byte stored at ALARM_TRIGGERED_ADDRESS
    now,                \* value of millis() at the last handler (32-bit, limbs)
    button,             \* what check_button(BUTTON_PIN) returned in the last tick
    kickstand,          \* what check_button(KICKSTAND_PIN) returned in the last tick
    prev,               \* history: the current state before the last handler
    calls,              \* history: the callbacks the last handler ran, in order
    entered_at,         \* history: millis() at the most recent state entry
    kick_held,          \* history: the kickstand read actuated in every tick
                        \* since the most recent state entry
    since_entry,        \* history: the time from the entry of the state the
                        \* last handler started in to that handler, as a
                        \* number that does not wrap (limbs <<top, hi, lo>>)
    wraps,              \* history: how often millis() wrapped in that time
    boot_flag,          \* history: the EEPROM byte found at the last power-on
    ticks,              \* history: calls of loop() since the last power-on
    nv_writes,          \* history: EEPROM cells the last handler programmed
    nv_same,            \* history: how many of them already held the value
    start_flag,         \* history: alarm_triggered as loaded on entering START
    armed_seen,         \* history: ALARM_ARMED was entered since power-on
    sounded,            \* history: ALARM_TRIGGERED was entered since power-on
    pin_signal,         \* debounce harness: the raw samples a line delivers
    cb_ret,             \* debounce harness: what check_button returned
    cb_reads            \* debounce harness: how many digitalRead calls it made

vars == <<current, alarm_triggered, state_change_time, relay, led, eeprom, now,
          button, kickstand, prev, calls, entered_at, kick_held, boot_flag,
          ticks, nv_writes, nv_same, since_entry, wraps, start_flag,
          armed_seen, sounded, pin_signal, cb_ret, cb_reads>>

machine_vars == <<current, alarm_triggered, state_change_time, relay, led, eeprom,
                  now, button, kickstand, prev, calls, entered_at, kick_held,
                  boot_flag, ticks, nv_writes, nv_same, since_entry, wraps,
                  start_flag, armed_seen, sounded>>

harness_vars == <<pin_signal, cb_ret, cb_reads>>

----------------------------------------------------------------------------
(* Bounds of the model. *)

\* loop() is called at most this many times after one power-on.
MaxTicks == 7

\* The debounce harness delivers every sample sequence that differs from a
\* steady line in at most this many samples.
MaxGlitches == 2

----------------------------------------------------------------------------
(* Program constants. *)

ALARM_BEEP_TIME == 1000

AUTO_RESET_MS == 120000

num_checks == 20

----------------------------------------------------------------------------
(* unsigned long: 32-bit arithmetic on limbs <<hi, lo>>. *)

Limb == 2 ^ 16

U32(n) == <<(n \div Limb) % Limb, n % Limb>>

Add32(a, b) ==
    LET lo == a[2] + b[2]
        hi == a[1] + b[1] + (lo \div Limb)
    IN  <<hi % Limb, lo % Limb>>

Sub32(a, b) ==
    LET lo == a[2] - b[2]
        borrow == IF lo < 0 THEN 1 ELSE 0
        hi == a[1] - b[1] - borrow
    IN  <<(hi + Limb) % Limb, (lo + Limb) % Limb>>

Geq32(a, b) == a[1] > b[1] \/ (a[1] = b[1] /\ a[2] >= b[2])

\* (a / d) % 2 for 0 < d < 2^15, by long division on the limbs
DivParity32(a, d) ==
    LET qh == a[1] \div d
        rh == a[1] % d
        low == (rh * (Limb % d)) + a[2]
        q == (qh * Limb) + (rh * (Limb \div d)) + (low \div d)
    IN  q % 2

----------------------------------------------------------------------------
(* check_button: the debounced reading of one input line.                  *)
(* A line is the sequence of raw digitalRead results it delivers, 0 = the  *)
(* contact is closed (INPUT_PULLUP), one sample more than the program is   *)
(* to take.                                                                *)

SigLen == num_checks + 1

Steady(level) == [i \in 1..SigLen |-> level]

Glitch(s, p) == [s EXCEPT ![p] = 1 - @]

RECURSIVE Glitches(_, _)
Glitches(S, k) ==
    IF k = 0 THEN S
    ELSE Glitches(S \cup {Glitch(s, p) : s \in S, p \in 1..SigLen}, k - 1)

\* every line within MaxGlitches samples of a steady closed or open contact
Signals == Glitches({Steady(0), Steady(1)}, MaxGlitches)

\* the lines a tick of the machine is fed: closed, open, and a closed
\* contact bouncing in the first or in the last sample taken
TickSignals ==
    {Steady(0), Steady(1), Glitch(Steady(0), 1), Glitch(Steady(0), num_checks)}

\* faulty variant: the loop stops at the first sample that is not actuated
RECURSIVE check_loop_early_exit(_, _, _)
check_loop_early_exit(s, i, total_pressed) ==
    IF i < num_checks
    THEN IF s[i + 1] = 0
         THEN check_loop_early_exit(s, i + 1, total_pressed + 1)
         ELSE [ret |-> FALSE, reads |-> i + 1]
    ELSE [ret |-> (total_pressed = num_checks), reads |-> i]

\* the for loop of check_button from iteration i on
RECURSIVE check_loop(_, _, _)
check_loop(s, i, total_pressed) ==
    IF i < num_checks
    THEN check_loop(s, i + 1, total_pressed + (IF s[i + 1] = 0 THEN 1 ELSE 0))
    ELSE [ret |-> (total_pressed = num_checks), reads |-> i]

check_button(s) == check_loop(s, 0, 0)

\* what check_button can return in a tick of the machine
TickReadings == {check_button(s).ret : s \in TickSignals}

----------------------------------------------------------------------------
(* The program's state as one record w, so that callbacks compose.         *)

States ==
    {"START", "WAIT_FOR_BUTTON_PRESS", "WAIT_FOR_KICKSTAND_DOWN",
     "WAIT_FOR_BUTTON_RELEASE", "ALARM_ARMED", "ALARM_TRIGGERED",
     "WAIT_FOR_KICKSTAND_UP"}

World ==
    [current |-> current, alarm_triggered |-> alarm_triggered,
     state_change_time |-> state_change_time, relay |-> relay, led |-> led,
     eeprom |-> eeprom, calls |-> <<>>, nv_writes |-> 0, nv_same |-> 0]

(* EEPROM: one byte at ALARM_TRIGGERED_ADDRESS. *)

EEPROM_read(w) == w.eeprom

\* EEPROM.write programs the cell whatever it holds
EEPROM_write(w, v) ==
    [w EXCEPT !.eeprom = v, !.nv_writes = @ + 1,
              !.nv_same = IF w.eeprom = v THEN @ + 1 ELSE @]

\* EEPROM.update programs the cell only when the value differs
EEPROM_update(w, v) == IF w.eeprom = v THEN w ELSE EEPROM_write(w, v)

Byte(b) == IF b THEN 1 ELSE 0

(* The state callbacks. *)

START_STATE_enter(w) ==
    [w EXCEPT !.alarm_triggered = (EEPROM_read(w) # 0), !.led = "GREEN"]

WAIT_FOR_BUTTON_PRESS_STATE_enter(w) == [w EXCEPT !.led = "OFF"]

WAIT_FOR_KICKSTAND_DOWN_STATE_enter(w) == [w EXCEPT !.led = "GREEN"]

WAIT_FOR_BUTTON_RELEASE_STATE_enter(w) == [w EXCEPT !.led = "RED"]

\* faulty variant: the enter callback without its digitalWrite
ALARM_ARMED_STATE_enter_no_relay(w) == [w EXCEPT !.led = "OFF"]

ALARM_ARMED_STATE_enter(w) == [w EXCEPT !.led = "OFF", !.relay = FALSE]

\* faulty variant: the enter callback without its EEPROM.update
ALARM_TRIGGERED_STATE_enter_no_store(w) ==
    [w EXCEPT !.relay = TRUE, !.alarm_triggered = TRUE, !.led = "OFF"]

ALARM_TRIGGERED_STATE_enter(w) ==
    [EEPROM_update([w EXCEPT !.relay = TRUE], Byte(TRUE))
        EXCEPT !.alarm_triggered = TRUE, !.led = "OFF"]

\* faulty variant: the beep phase taken from millis() itself
ALARM_TRIGGERED_STATE_loop_unanchored(w, t) ==
    IF DivParity32(t, ALARM_BEEP_TIME) = 0
    THEN [w EXCEPT !.relay = TRUE]
    ELSE [w EXCEPT !.relay = FALSE]

ALARM_TRIGGERED_STATE_loop(w, t) ==
    LET time_since_start_ms == Sub32(t, w.state_change_time)
    IN  IF DivParity32(time_since_start_ms, ALARM_BEEP_TIME) = 0
        THEN [w EXCEPT !.relay = TRUE]
        ELSE [w EXCEPT !.relay = FALSE]

WAIT_FOR_KICKSTAND_UP_STATE_enter(w) == [w EXCEPT !.led = "RED"]

\* faulty variant: the exit callback without its EEPROM.update
WAIT_FOR_KICKSTAND_UP_STATE_exit_no_store(w) ==
    [w EXCEPT !.relay = FALSE, !.alarm_triggered = FALSE]

\* faulty variant: the exit callback without its digitalWrite
WAIT_FOR_KICKSTAND_UP_STATE_exit_keeps_relay(w) ==
    [EEPROM_update(w, Byte(FALSE)) EXCEPT !.alarm_triggered = FALSE]

\* faulty variant: the exit callback without its assignment to alarm_triggered
WAIT_FOR_KICKSTAND_UP_STATE_exit_keeps_context(w) ==
    EEPROM_update([w EXCEPT !.relay = FALSE], Byte(FALSE))

WAIT_FOR_KICKSTAND_UP_STATE_exit(w) ==
    [EEPROM_update([w EXCEPT !.relay = FALSE], Byte(FALSE))
        EXCEPT !.alarm_triggered = FALSE]

\* faulty variant: the hook does not stamp the time
every_state_enter_no_stamp(w, t) == w

every_state_enter(w, t) == [w EXCEPT !.state_change_time = t]

(* The guards of the transitions.  btn and kick are what check_button      *)
(* returns for BUTTON_PIN and KICKSTAND_PIN in the tick, t is what         *)
(* millis() returns.                                                       *)

\* faulty variant: the guard does not look at the loaded flag
Guard_START_ALARM_TRIGGERED_always(w, btn, kick, t) == TRUE

Guard_START_ALARM_TRIGGERED(w, btn, kick, t) == w.alarm_triggered

Guard_START_WAIT_FOR_BUTTON_PRESS(w, btn, kick, t) == ~w.alarm_triggered

Guard_WAIT_FOR_BUTTON_PRESS_WAIT_FOR_KICKSTAND_DOWN(w, btn, kick, t) == btn

Guard_WAIT_FOR_KICKSTAND_DOWN_WAIT_FOR_BUTTON_PRESS(w, btn, kick, t) == ~btn

Guard_WAIT_FOR_KICKSTAND_DOWN_WAIT_FOR_BUTTON_RELEASE(w, btn, kick, t) == kick

\* faulty variant: the kickstand going up counts only while the button is held
Guard_WAIT_FOR_BUTTON_RELEASE_WAIT_FOR_KICKSTAND_DOWN_held(w, btn, kick, t) ==
    ~kick /\ btn

Guard_WAIT_FOR_BUTTON_RELEASE_WAIT_FOR_KICKSTAND_DOWN(w, btn, kick, t) == ~kick

Guard_WAIT_FOR_BUTTON_RELEASE_ALARM_ARMED(w, btn, kick, t) == ~btn

Guard_ALARM_ARMED_ALARM_TRIGGERED(w, btn, kick, t) == ~kick

Guard_ALARM_ARMED_WAIT_FOR_BUTTON_RELEASE(w, btn, kick, t) == btn

\* faulty variant: the silencing guard without its kickstand check
Guard_ALARM_TRIGGERED_WAIT_FOR_KICKSTAND_UP_button_only(w, btn, kick, t) == btn

Guard_ALARM_TRIGGERED_WAIT_FOR_KICKSTAND_UP(w, btn, kick, t) == btn /\ kick

\* faulty variant: the auto-reset guard without its kickstand check
Guard_ALARM_TRIGGERED_ALARM_ARMED_time_only(w, btn, kick, t) ==
    Geq32(Sub32(t, w.state_change_time), U32(AUTO_RESET_MS))

\* faulty variant: > instead of >=
Guard_ALARM_TRIGGERED_ALARM_ARMED_strict(w, btn, kick, t) ==
    kick /\ Geq32(Sub32(t, w.state_change_time), U32(AUTO_RESET_MS + 1))

\* faulty variant: the elapsed time taken as 0 when millis() is below
\* state_change_time
Guard_ALARM_TRIGGERED_ALARM_ARMED_no_wrap(w, btn, kick, t) ==
    LET delta_ms == IF Geq32(t, w.state_change_time)
                    THEN Sub32(t, w.state_change_time)
                    ELSE U32(0)
    IN  kick /\ Geq32(delta_ms, U32(AUTO_RESET_MS))

Guard_ALARM_TRIGGERED_ALARM_ARMED(w, btn, kick, t) ==
    LET current_time_ms == t
        delta_ms == Sub32(current_time_ms, w.state_change_time)
    IN  kick /\ Geq32(delta_ms, U32(AUTO_RESET_MS))

Guard_WAIT_FOR_KICKSTAND_UP_WAIT_FOR_KICKSTAND_DOWN(w, btn, kick, t) == ~kick

Guard_WAIT_FOR_KICKSTAND_UP_ALARM_TRIGGERED(w, btn, kick, t) == ~btn

\* faulty variant: a button press with the kickstand already down is taken
\* straight to WAIT_FOR_BUTTON_RELEASE
Transitions_direct ==
    << [from |-> "START", to |-> "ALARM_TRIGGERED", guard |-> 1],
       [from |-> "START", to |-> "WAIT_FOR_BUTTON_PRESS", guard |-> 2],
       [from |-> "WAIT_FOR_BUTTON_PRESS", to |-> "WAIT_FOR_BUTTON_RELEASE", guard |-> 10],
       [from |-> "WAIT_FOR_BUTTON_PRESS", to |-> "WAIT_FOR_KICKSTAND_DOWN", guard |-> 3],
       [from |-> "WAIT_FOR_KICKSTAND_DOWN", to |-> "WAIT_FOR_BUTTON_PRESS", guard |-> 4],
       [from |-> "WAIT_FOR_KICKSTAND_DOWN", to |-> "WAIT_FOR_BUTTON_RELEASE", guard |-> 5],
       [from |-> "WAIT_FOR_BUTTON_RELEASE", to |-> "WAIT_FOR_KICKSTAND_DOWN", guard |-> 6],
       [from |-> "WAIT_FOR_BUTTON_RELEASE", to |-> "ALARM_ARMED", guard |-> 7],
       [from |-> "ALARM_ARMED", to |-> "ALARM_TRIGGERED", guard |-> 8],
       [from |-> "ALARM_ARMED", to |-> "WAIT_FOR_BUTTON_RELEASE", guard |-> 9],
       [from |-> "ALARM_TRIGGERED", to |-> "WAIT_FOR_KICKSTAND_UP", guard |-> 10],
       [from |-> "ALARM_TRIGGERED", to |-> "ALARM_ARMED", guard |-> 11],
       [from |-> "WAIT_FOR_KICKSTAND_UP", to |-> "WAIT_FOR_KICKSTAND_DOWN", guard |-> 12],
       [from |-> "WAIT_FOR_KICKSTAND_UP", to |-> "ALARM_TRIGGERED", guard |-> 13] >>

\* faulty variant: the two transitions out of ALARM_ARMED registered in the
\* other order
Transitions_swapped ==
    << [from |-> "START", to |-> "ALARM_TRIGGERED", guard |-> 1],
       [from |-> "START", to |-> "WAIT_FOR_BUTTON_PRESS", guard |-> 2],
       [from |-> "WAIT_FOR_BUTTON_PRESS", to |-> "WAIT_FOR_KICKSTAND_DOWN", guard |-> 3],
       [from |-> "WAIT_FOR_KICKSTAND_DOWN", to |-> "WAIT_FOR_BUTTON_PRESS", guard |-> 4],
       [from |-> "WAIT_FOR_KICKSTAND_DOWN", to |-> "WAIT_FOR_BUTTON_RELEASE", guard |-> 5],
       [from |-> "WAIT_FOR_BUTTON_RELEASE", to |-> "WAIT_FOR_KICKSTAND_DOWN", guard |-> 6],
       [from |-> "WAIT_FOR_BUTTON_RELEASE", to |-> "ALARM_ARMED", guard |-> 7],
       [from |-> "ALARM_ARMED", to |-> "WAIT_FOR_BUTTON_RELEASE", guard |-> 9],
       [from |-> "ALARM_ARMED", to |-> "ALARM_TRIGGERED", guard |-> 8],
       [from |-> "ALARM_TRIGGERED", to |-> "WAIT_FOR_KICKSTAND_UP", guard |-> 10],
       [from |-> "ALARM_TRIGGERED", to |-> "ALARM_ARMED", guard |-> 11],
       [from |-> "WAIT_FOR_KICKSTAND_UP", to |-> "WAIT_FOR_KICKSTAND_DOWN", guard |-> 12],
       [from |-> "WAIT_FOR_KICKSTAND_UP", to |-> "ALARM_TRIGGERED", guard |-> 13] >>

\* the add_transition calls in the order setup() makes them; guard k is the
\* lambda of the k-th call
Transitions ==
    << [from |-> "START", to |-> "ALARM_TRIGGERED", guard |-> 1],
       [from |-> "START", to |-> "WAIT_FOR_BUTTON_PRESS", guard |-> 2],
       [from |-> "WAIT_FOR_BUTTON_PRESS", to |-> "WAIT_FOR_KICKSTAND_DOWN", guard |-> 3],
       [from |-> "WAIT_FOR_KICKSTAND_DOWN", to |-> "WAIT_FOR_BUTTON_PRESS", guard |-> 4],
       [from |-> "WAIT_FOR_KICKSTAND_DOWN", to |-> "WAIT_FOR_BUTTON_RELEASE", guard |-> 5],
       [from |-> "WAIT_FOR_BUTTON_RELEASE", to |-> "WAIT_FOR_KICKSTAND_DOWN", guard |-> 6],
       [from |-> "WAIT_FOR_BUTTON_RELEASE", to |-> "ALARM_ARMED", guard |-> 7],
       [from |-> "ALARM_ARMED", to |-> "ALARM_TRIGGERED", guard |-> 8],
       [from |-> "ALARM_ARMED", to |-> "WAIT_FOR_BUTTON_RELEASE", guard |-> 9],
       [from |-> "ALARM_TRIGGERED", to |-> "WAIT_FOR_KICKSTAND_UP", guard |-> 10],
       [from |-> "ALARM_TRIGGERED", to |-> "ALARM_ARMED", guard |-> 11],
       [from |-> "WAIT_FOR_KICKSTAND_UP", to |-> "WAIT_FOR_KICKSTAND_DOWN", guard |-> 12],
       [from |-> "WAIT_FOR_KICKSTAND_UP", to |-> "ALARM_TRIGGERED", guard |-> 13] >>

Guard(k, w, btn, kick, t) ==
    CASE k = 1 -> Guard_START_ALARM_TRIGGERED(w, btn, kick, t)
      [] k = 2 -> Guard_START_WAIT_FOR_BUTTON_PRESS(w, btn, kick, t)
      [] k = 3 -> Guard_WAIT_FOR_BUTTON_PRESS_WAIT_FOR_KICKSTAND_DOWN(w, btn, kick, t)
      [] k = 4 -> Guard_WAIT_FOR_KICKSTAND_DOWN_WAIT_FOR_BUTTON_PRESS(w, btn, kick, t)
      [] k = 5 -> Guard_WAIT_FOR_KICKSTAND_DOWN_WAIT_FOR_BUTTON_RELEASE(w, btn, kick, t)
      [] k = 6 -> Guard_WAIT_FOR_BUTTON_RELEASE_WAIT_FOR_KICKSTAND_DOWN(w, btn, kick, t)
      [] k = 7 -> Guard_WAIT_FOR_BUTTON_RELEASE_ALARM_ARMED(w, btn, kick, t)
      [] k = 8 -> Guard_ALARM_ARMED_ALARM_TRIGGERED(w, btn, kick, t)
      [] k = 9 -> Guard_ALARM_ARMED_WAIT_FOR_BUTTON_RELEASE(w, btn, kick, t)
      [] k = 10 -> Guard_ALARM_TRIGGERED_WAIT_FOR_KICKSTAND_UP(w, btn, kick, t)
      [] k = 11 -> Guard_ALARM_TRIGGERED_ALARM_ARMED(w, btn, kick, t)
      [] k = 12 -> Guard_WAIT_FOR_KICKSTAND_UP_WAIT_FOR_KICKSTAND_DOWN(w, btn, kick, t)
      [] k = 13 -> Guard_WAIT_FOR_KICKSTAND_UP_ALARM_TRIGGERED(w, btn, kick, t)

----------------------------------------------------------------------------
(* Which callbacks setup() registers for a state: add_state_enter gives an *)
(* enter callback, add_state_el enter and loop, add_state_ee enter and     *)
(* exit.                                                                   *)

state_enter(s, w) ==
    CASE s = "START" -> START_STATE_enter(w)
      [] s = "WAIT_FOR_BUTTON_PRESS" -> WAIT_FOR_BUTTON_PRESS_STATE_enter(w)
      [] s = "WAIT_FOR_KICKSTAND_DOWN" -> WAIT_FOR_KICKSTAND_DOWN_STATE_enter(w)
      [] s = "WAIT_FOR_BUTTON_RELEASE" -> WAIT_FOR_BUTTON_RELEASE_STATE_enter(w)
      [] s = "ALARM_ARMED" -> ALARM_ARMED_STATE_enter(w)
      [] s = "ALARM_TRIGGERED" -> ALARM_TRIGGERED_STATE_enter(w)
      [] s = "WAIT_FOR_KICKSTAND_UP" -> WAIT_FOR_KICKSTAND_UP_STATE_enter(w)

has_loop(s) == s = "ALARM_TRIGGERED"

has_exit(s) == s = "WAIT_FOR_KICKSTAND_UP"

----------------------------------------------------------------------------
(* TinyStateMachine: the engine behind tsm.startup() and tsm.loop().       *)

Log(w, c) == [w EXCEPT !.calls = Append(@, c)]

\* make s current: its enter callback, then the every-state-enter hook
tsm_enter(w, s, t) ==
    LET w1 == [w EXCEPT !.current = s]
        w2 == Log(state_enter(s, w1), "enter")
    IN  Log(every_state_enter(w2, t), "every_enter")

tsm_exit(w) ==
    IF has_exit(w.current)
    THEN Log(WAIT_FOR_KICKSTAND_UP_STATE_exit(w), "exit")
    ELSE w

tsm_run_loop(w, t) ==
    IF has_loop(w.current)
    THEN Log(ALARM_TRIGGERED_STATE_loop(w, t), "loop")
    ELSE w

\* the first registered transition out of the current state whose guard
\* holds, 0 when there is none
first_match(w, btn, kick, t) ==
    LET M == {k \in 1..Len(Transitions) :
                /\ Transitions[k].from = w.current
                /\ Guard(Transitions[k].guard, w, btn, kick, t)}
    IN  IF M = {} THEN 0 ELSE CHOOSE k \in M : \A j \in M : k <= j

tsm_startup(w, t) == tsm_enter(w, "START", t)

tsm_loop(w, btn, kick, t) ==
    LET w1 == tsm_run_loop(w, t)
        k == first_match(w1, btn, kick, t)
    IN  IF k = 0 THEN w1 ELSE tsm_enter(tsm_exit(w1), Transitions[k].to, t)

----------------------------------------------------------------------------
(* setup() and loop(). *)

\* faulty variant: setup() without its EEPROM.write
setup_no_write(w, t) ==
    LET w1 == [w EXCEPT !.state_change_time = t]
        w3 == [w1 EXCEPT !.alarm_triggered = FALSE]
    IN  tsm_startup(w3, t)

setup(w, t) ==
    LET w1 == [w EXCEPT !.state_change_time = t]
        w2 == EEPROM_write(w1, Byte(FALSE))
        w3 == [w2 EXCEPT !.alarm_triggered = FALSE]
    IN  tsm_startup(w3, t)

loop(w, btn, kick, t) == tsm_loop(w, btn, kick, t)

----------------------------------------------------------------------------
(* Time.  millis() is 0 at power-on.  Between two calls of loop() it       *)
(* advances by nothing, by half a beep, by the auto-reset time less half a *)
(* beep, or by a long idle stretch that brings the counter within half the *)
(* auto-reset time of its wrap.                                            *)

HalfBeep == ALARM_BEEP_TIME \div 2

LongIdle == Sub32(U32(0), U32(AUTO_RESET_MS \div 2))

Steps == {U32(0), U32(HalfBeep), U32(AUTO_RESET_MS - HalfBeep), LongIdle}

\* time that does not wrap: a <<top, hi, lo>> advanced by the 32-bit d
Add48(a, d) ==
    LET lo == a[3] + d[2]
        hi == a[2] + d[1] + (lo \div Limb)
    IN  <<a[1] + (hi \div Limb), hi % Limb, lo % Limb>>

\* 1 when the 32-bit counter at a wraps on advancing by d, else 0
Carry32(a, d) == (a[1] + d[1] + ((a[2] + d[2]) \div Limb)) \div Limb

----------------------------------------------------------------------------
(* The machine. *)

Erased == 255

Commit(w) ==
    /\ current' = w.current
    /\ alarm_triggered' = w.alarm_triggered
    /\ state_change_time' = w.state_change_time
    /\ relay' = w.relay
    /\ led' = w.led
    /\ eeprom' = w.eeprom
    /\ calls' = w.calls
    /\ nv_writes' = w.nv_writes
    /\ nv_same' = w.nv_same

Unpowered ==
    /\ current = "NONE"
    /\ alarm_triggered = FALSE
    /\ state_change_time = U32(0)
    /\ relay = FALSE
    /\ led = "OFF"
    /\ now = U32(0)
    /\ button = FALSE
    /\ kickstand = FALSE
    /\ prev = "NONE"
    /\ calls = <<>>
    /\ entered_at = U32(0)
    /\ kick_held = TRUE
    /\ since_entry = <<0, 0, 0>>
    /\ wraps = 0
    /\ ticks = 0
    /\ nv_writes = 0
    /\ nv_same = 0
    /\ start_flag = FALSE
    /\ armed_seen = FALSE
    /\ sounded = FALSE

HarnessIdle ==
    /\ pin_signal = Steady(1)
    /\ cb_ret = FALSE
    /\ cb_reads = 0

\* a device that was never powered: the EEPROM cell is erased
Init ==
    /\ Unpowered
    /\ eeprom = Erased
    /\ boot_flag = Erased
    /\ HarnessIdle

\* power-on: the static initialisers, then setup()
Setup ==
    /\ current = "NONE"
    /\ LET t == U32(0)
           w0 == [World EXCEPT !.alarm_triggered = FALSE,
                                !.state_change_time = U32(0)]
           w == setup(w0, t)
       IN  /\ Commit(w)
           /\ now' = t
           /\ entered_at' = t
           /\ kick_held' = TRUE
           /\ since_entry' = <<0, 0, 0>>
           /\ wraps' = 0
           /\ start_flag' = w.alarm_triggered
    /\ armed_seen' = FALSE
    /\ sounded' = FALSE
    /\ boot_flag' = eeprom
    /\ prev' = "NONE"
    /\ ticks' = 0
    /\ UNCHANGED <<button, kickstand>>
    /\ UNCHANGED harness_vars

\* one call of loop()
Tick ==
    /\ current # "NONE"
    /\ ticks < MaxTicks
    /\ \E dt \in Steps, btn \in TickReadings, kick \in TickReadings :
         LET t == Add32(now, dt)
             w == loop(World, btn, kick, t)
         IN  /\ Commit(w)
             /\ now' = t
             /\ button' = btn
             /\ kickstand' = kick
             /\ LET entered == \E i \in DOMAIN w.calls : w.calls[i] = "enter"
                IN  /\ entered_at' = IF entered THEN t ELSE entered_at
                    /\ kick_held' = IF entered THEN TRUE ELSE kick_held /\ kick
             /\ LET fresh == \E i \in DOMAIN calls : calls[i] = "enter"
                IN  /\ since_entry' =
                          Add48(IF fresh THEN <<0, 0, 0>> ELSE since_entry, dt)
                    /\ wraps' = (IF fresh THEN 0 ELSE wraps) + Carry32(now, dt)
             /\ armed_seen' = (armed_seen \/ w.current = "ALARM_ARMED")
             /\ sounded' = (sounded \/ w.current = "ALARM_TRIGGERED")
    /\ prev' = current
    /\ ticks' = ticks + 1
    /\ UNCHANGED <<boot_flag, start_flag>>
    /\ UNCHANGED harness_vars

\* the supply fails: only the EEPROM cell survives
PowerLoss ==
    /\ current # "NONE"
    /\ current' = "NONE"
    /\ alarm_triggered' = FALSE
    /\ state_change_time' = U32(0)
    /\ relay' = FALSE
    /\ led' = "OFF"
    /\ now' = U32(0)
    /\ button' = FALSE
    /\ kickstand' = FALSE
    /\ prev' = "NONE"
    /\ calls' = <<>>
    /\ entered_at' = U32(0)
    /\ kick_held' = TRUE
    /\ since_entry' = <<0, 0, 0>>
    /\ wraps' = 0
    /\ ticks' = 0
    /\ nv_writes' = 0
    /\ nv_same' = 0
    /\ start_flag' = FALSE
    /\ armed_seen' = FALSE
    /\ sounded' = FALSE
    /\ UNCHANGED <<eeprom, boot_flag>>
    /\ UNCHANGED harness_vars

Next == Setup \/ Tick \/ PowerLoss

Spec == Init /\ [][Next]_vars

----------------------------------------------------------------------------
(* The debounce harness: check_button on every line of Signals. *)

InitDebounce ==
    /\ Unpowered
    /\ eeprom = Erased
    /\ boot_flag = Erased
    /\ pin_signal \in Signals
    /\ cb_ret = FALSE
    /\ cb_reads = 0

\* one call of check_button on the line
Sample ==
    /\ LET r == check_button(pin_signal)
       IN  /\ cb_ret' = r.ret
           /\ cb_reads' = r.reads
    /\ UNCHANGED pin_signal
    /\ UNCHANGED machine_vars

\* the line changes between two calls
Rewire ==
    /\ cb_reads > 0
    /\ pin_signal' \in Signals
    /\ cb_reads' = 0
    /\ cb_ret' = FALSE
    /\ UNCHANGED machine_vars

NextDebounce == Sample \/ Rewire

SpecDebounce == InitDebounce /\ [][NextDebounce]_vars

----------------------------------------------------------------------------
(* Properties. *)

Powered == current # "NONE"

\* a tick has run since power-on, so prev, button, kickstand and calls
\* describe it
Ticked == Powered /\ ticks > 0

Ran(c) == \E i \in DOMAIN calls : calls[i] = c

\* C1: power-loss recovery.  When the byte found in the EEPROM at power-on
\* is the stored value true, the state after setup() and one tick is
\* ALARM_TRIGGERED.
C1_PowerLossRecovery ==
    (Powered /\ boot_flag = 1 /\ ticks = 1) => current = "ALARM_TRIGGERED"

\* C2: when the byte found at power-on is the stored value false, or the
\* cell was never written, START is entered with alarm_triggered false and
\* the state after one tick is WAIT_FOR_BUTTON_PRESS.
C2_ColdBoot ==
    (Powered /\ boot_flag \in {0, Erased}) =>
        /\ ticks = 0 => (current = "START" /\ alarm_triggered = FALSE)
        /\ ticks = 1 => current = "WAIT_FOR_BUTTON_PRESS"

C2_Witness ==
    /\ boot_flag = Erased
    /\ ticks = 1
    /\ prev = "START"
    /\ current = "WAIT_FOR_BUTTON_PRESS"

\* C3: at most one transition fires per tick.  A tick runs at most one enter
\* callback and ends in the state it started in or in the target of one
\* registered transition out of it; from WAIT_FOR_BUTTON_PRESS with button
\* and kickstand both actuated it ends in WAIT_FOR_KICKSTAND_DOWN.
C3_OneTransitionPerTick ==
    Ticked =>
        /\ Cardinality({i \in DOMAIN calls : calls[i] = "enter"}) <= 1
        /\ \/ current = prev /\ ~Ran("enter")
           \/ \E k \in DOMAIN Transitions :
                Transitions[k].from = prev /\ Transitions[k].to = current
        /\ (prev = "WAIT_FOR_BUTTON_PRESS" /\ button /\ kickstand)
              => current = "WAIT_FOR_KICKSTAND_DOWN"

C3_Witness ==
    /\ Ticked
    /\ prev = "WAIT_FOR_BUTTON_PRESS"
    /\ button
    /\ kickstand
    /\ current = "WAIT_FOR_KICKSTAND_DOWN"

\* C4: priority by registration order.  When two guards of the current state
\* hold in one tick, the transition registered first fires: kickstand
\* released wins over button actuated in ALARM_ARMED, button released wins
\* over kickstand actuated in WAIT_FOR_KICKSTAND_DOWN, kickstand released
\* wins over button released in WAIT_FOR_KICKSTAND_UP.
C4_RegistrationOrder ==
    Ticked =>
        /\ (prev = "ALARM_ARMED" /\ ~kickstand /\ button)
              => current = "ALARM_TRIGGERED"
        /\ (prev = "WAIT_FOR_KICKSTAND_DOWN" /\ ~button /\ kickstand)
              => current = "WAIT_FOR_BUTTON_PRESS"
        /\ (prev = "WAIT_FOR_KICKSTAND_UP" /\ ~kickstand /\ ~button)
              => current = "WAIT_FOR_KICKSTAND_DOWN"

C4_Witness ==
    /\ Ticked
    /\ prev = "ALARM_ARMED"
    /\ ~kickstand
    /\ button
    /\ current = "ALARM_TRIGGERED"

\* a mod d for 0 < d < 2^15, on the limbs
Mod32(a, d) == (((a[1] % d) * (Limb % d)) + a[2]) % d

\* the step is a call of loop()
IsTick == ticks' = ticks + 1

\* what the millisecond counter has advanced since the state entry that
\* precedes the step, read at the step
ElapsedAtStep == Sub32(now', entered_at)

\* none of the guards registered for the current state holds at the step
NoGuardAtStep ==
    CASE current = "START" -> FALSE
      [] current = "WAIT_FOR_BUTTON_PRESS" -> ~button'
      [] current = "WAIT_FOR_KICKSTAND_DOWN" -> button' /\ ~kickstand'
      [] current = "WAIT_FOR_BUTTON_RELEASE" -> kickstand' /\ button'
      [] current = "ALARM_ARMED" -> kickstand' /\ ~button'
      [] current = "ALARM_TRIGGERED" ->
            /\ ~(button' /\ kickstand')
            /\ ~(kickstand' /\ Geq32(ElapsedAtStep, U32(120000)))
      [] current = "WAIT_FOR_KICKSTAND_UP" -> kickstand' /\ button'
      [] OTHER -> FALSE

\* C5: a tick on which none of the current state's guards holds leaves the
\* current state, alarm_triggered, state_change_time and the EEPROM cell
\* unchanged and runs no enter, exit or every-state-enter callback.
C5_NoGuardNoEffect ==
    [][ (IsTick /\ NoGuardAtStep) =>
            /\ current' = current
            /\ \A i \in DOMAIN calls' : calls'[i] = "loop"
            /\ nv_writes' = 0
            /\ UNCHANGED <<alarm_triggered, state_change_time, eeprom>> ]_vars

C5_Witness ==
    /\ Ticked
    /\ prev = "ALARM_TRIGGERED"
    /\ current = "ALARM_TRIGGERED"
    /\ ~kickstand
    /\ Geq32(Sub32(now, entered_at), U32(120000))
    /\ calls = <<"loop">>

\* C6: check_button takes exactly 20 samples and returns true exactly when
\* every one of the 20 is actuated (reads 0); it has no other outcome.
C6_Debounce ==
    cb_reads > 0 =>
        /\ cb_reads = 20
        /\ cb_ret \in BOOLEAN
        /\ cb_ret <=> (\A i \in 1..20 : pin_signal[i] = 0)

C6_Witness ==
    /\ cb_reads = 20
    /\ ~cb_ret
    /\ Cardinality({i \in 1..20 : pin_signal[i] # 0}) = 1

\* C7 as claimed: in ALARM_TRIGGERED with the kickstand actuated in every
\* tick since the state was entered, no tick with less than 120000 ms
\* elapsed goes to ALARM_ARMED and the tick at which 120000 ms or more have
\* elapsed does.
C7_AutoResetAsClaimed ==
    [][ (IsTick /\ current = "ALARM_TRIGGERED" /\ kick_held /\ kickstand') =>
            IF Geq32(ElapsedAtStep, U32(120000))
            THEN current' = "ALARM_ARMED"
            ELSE current' # "ALARM_ARMED" ]_vars

\* C7 amended: the transition to ALARM_ARMED fires only with the kickstand
\* actuated and at least 120000 ms elapsed, and it fires on every such tick
\* on which the button is not actuated; with the button actuated too the
\* transition to WAIT_FOR_KICKSTAND_UP, registered earlier, fires instead.
C7_AutoReset ==
    [][ (IsTick /\ current = "ALARM_TRIGGERED") =>
            /\ current' = "ALARM_ARMED"
                  => (kickstand' /\ Geq32(ElapsedAtStep, U32(120000)))
            /\ (kickstand' /\ ~button' /\ Geq32(ElapsedAtStep, U32(120000)))
                  => current' = "ALARM_ARMED"
            /\ (kickstand' /\ button')
                  => current' = "WAIT_FOR_KICKSTAND_UP" ]_vars

C7_Witness ==
    /\ Ticked
    /\ prev = "ALARM_TRIGGERED"
    /\ current = "ALARM_ARMED"
    /\ kickstand
    /\ ~button

\* C8: beep parity.  After a tick that stays in ALARM_TRIGGERED the relay is
\* ON when the time since the state was entered is in [0, 1000) modulo 2000
\* and OFF when it is in [1000, 2000).
C8_BeepParity ==
    (Ticked /\ prev = "ALARM_TRIGGERED" /\ current = "ALARM_TRIGGERED") =>
        (relay <=> Mod32(Sub32(now, entered_at), 2000) < 1000)

C8_Witness ==
    /\ Ticked
    /\ prev = "ALARM_TRIGGERED"
    /\ current = "ALARM_TRIGGERED"
    /\ ~relay
    /\ Mod32(Sub32(now, entered_at), 2000) = 1000
    /\ Mod32(now, 2000) = 1500

\* C9: the arming scenario, step by step.  After a boot that found the flag
\* false the first tick ends in WAIT_FOR_BUTTON_PRESS; from there button
\* actuated leads to WAIT_FOR_KICKSTAND_DOWN, kickstand actuated with the
\* button held to WAIT_FOR_BUTTON_RELEASE, button released with the
\* kickstand down to ALARM_ARMED with the relay OFF, and kickstand released
\* to ALARM_TRIGGERED with the relay ON and the flag stored true.
C9_ArmingScenario ==
    /\ (Powered /\ boot_flag = 0 /\ ticks = 1)
          => current = "WAIT_FOR_BUTTON_PRESS"
    /\ Ticked =>
          /\ (prev = "WAIT_FOR_BUTTON_PRESS" /\ button)
                => current = "WAIT_FOR_KICKSTAND_DOWN"
          /\ (prev = "WAIT_FOR_KICKSTAND_DOWN" /\ button /\ kickstand)
                => current = "WAIT_FOR_BUTTON_RELEASE"
          /\ (prev = "WAIT_FOR_BUTTON_RELEASE" /\ ~button /\ kickstand)
                => (current = "ALARM_ARMED" /\ ~relay)
          /\ (prev = "ALARM_ARMED" /\ ~kickstand)
                => (current = "ALARM_TRIGGERED" /\ relay /\ eeprom = 1)

\* five ticks after the boot the machine can be in ALARM_TRIGGERED only by
\* the scenario's path
C9_Witness ==
    /\ Powered
    /\ boot_flag = 0
    /\ ticks = 5
    /\ prev = "ALARM_ARMED"
    /\ ~button
    /\ ~kickstand
    /\ current = "ALARM_TRIGGERED"
    /\ relay
    /\ eeprom = 1

\* C10 as claimed: in WAIT_FOR_KICKSTAND_UP the relay is OFF and the stored
\* flag is false.
C10_SilencedAsClaimed ==
    current = "WAIT_FOR_KICKSTAND_UP" => (~relay /\ eeprom = 0)

\* C10 amended: in WAIT_FOR_KICKSTAND_UP the flag is still stored true and
\* alarm_triggered is true; the relay is OFF and the flag false once the
\* state has been left for WAIT_FOR_KICKSTAND_DOWN.
C10_SilencedOnExit ==
    /\ current = "WAIT_FOR_KICKSTAND_UP" => (eeprom = 1 /\ alarm_triggered)
    /\ (Ticked /\ prev = "WAIT_FOR_KICKSTAND_UP"
               /\ current = "WAIT_FOR_KICKSTAND_DOWN")
          => (~relay /\ eeprom = 0 /\ ~alarm_triggered)

C10_Witness ==
    /\ current = "WAIT_FOR_KICKSTAND_UP"
    /\ prev = "ALARM_TRIGGERED"
    /\ relay
    /\ eeprom = 1

\* C11: the sounding alarm is not left with the kickstand up.  A tick in
\* ALARM_TRIGGERED on which the kickstand reads not actuated stays in
\* ALARM_TRIGGERED, and a tick from ALARM_TRIGGERED ends in
\* WAIT_FOR_KICKSTAND_UP only when button and kickstand both read actuated.
C11_KickstandNeeded ==
    (Ticked /\ prev = "ALARM_TRIGGERED") =>
        /\ ~kickstand => current = "ALARM_TRIGGERED"
        /\ current = "WAIT_FOR_KICKSTAND_UP" => (button /\ kickstand)

C11_Witness ==
    /\ Ticked
    /\ prev = "ALARM_TRIGGERED"
    /\ current = "ALARM_TRIGGERED"
    /\ ~kickstand
    /\ button
    /\ Geq32(Sub32(now, entered_at), U32(120000))

\* C12: write-if-different.  No handler of the program, setup() included,
\* programs the EEPROM cell with the value the cell already holds.
C12_WriteIfDifferent == nv_same = 0

\* the true elapsed time T = <<top, hi, lo>> is at least n (n < 2^31)
TrueGeq(T, n) == T[1] > 0 \/ Geq32(<<T[2], T[3]>>, U32(n))

\* (T / d) % 2 for the true elapsed time T and an even limb base
TrueDivParity(T, d) ==
    LET x1 == ((T[1] % d) * Limb) + T[2]
        x2 == ((x1 % d) * Limb) + T[3]
    IN  (x2 \div d) % 2

\* C13 as claimed: when millis() wrapped once between the entry into
\* ALARM_TRIGGERED and a tick, the beep phase and the auto-reset guard come
\* out as they would with the true elapsed time.
C13_WrapOnceAsClaimed ==
    (Ticked /\ prev = "ALARM_TRIGGERED" /\ wraps = 1) =>
        /\ current = "ALARM_TRIGGERED"
              => (relay <=> TrueDivParity(since_entry, 1000) = 0)
        /\ (kickstand /\ ~button)
              => (current = "ALARM_ARMED" <=> TrueGeq(since_entry, 120000))

\* C13 amended: the same, for a true elapsed time below 2^32 ms.
C13_WrapOnce ==
    (Ticked /\ prev = "ALARM_TRIGGERED" /\ wraps = 1 /\ since_entry[1] = 0) =>
        /\ current = "ALARM_TRIGGERED"
              => (relay <=> TrueDivParity(since_entry, 1000) = 0)
        /\ (kickstand /\ ~button)
              => (current = "ALARM_ARMED" <=> TrueGeq(since_entry, 120000))

C13_Witness ==
    /\ Ticked
    /\ prev = "ALARM_TRIGGERED"
    /\ wraps = 1
    /\ since_entry = <<0, 1, 54464>>
    /\ kickstand
    /\ ~button
    /\ current = "ALARM_ARMED"

\* C14: entry and exit actions of the sounding states.  Every entry into
\* ALARM_TRIGGERED leaves the relay ON, the flag stored true and
\* alarm_triggered true.  Every exit from WAIT_FOR_KICKSTAND_UP runs the exit
\* callback before the target's enter callback: towards
\* WAIT_FOR_KICKSTAND_DOWN the relay is OFF, the flag stored false and
\* alarm_triggered false, towards ALARM_TRIGGERED the cell is programmed
\* twice (false, then true).  Leaving ALARM_TRIGGERED runs no exit callback
\* and leaves the flag as it was.
C14_EntryExitActions ==
    /\ (Powered /\ Ran("enter") /\ current = "ALARM_TRIGGERED")
          => (relay /\ eeprom = 1 /\ alarm_triggered)
    /\ (Ticked /\ prev = "WAIT_FOR_KICKSTAND_UP"
               /\ current # "WAIT_FOR_KICKSTAND_UP") =>
          /\ calls = <<"exit", "enter", "every_enter">>
          /\ current = "WAIT_FOR_KICKSTAND_DOWN"
                => (~relay /\ eeprom = 0 /\ ~alarm_triggered)
          /\ current = "ALARM_TRIGGERED" => nv_writes = 2
    /\ (Ticked /\ prev = "ALARM_TRIGGERED" /\ current # "ALARM_TRIGGERED") =>
          /\ calls = <<"loop", "enter", "every_enter">>
          /\ eeprom = 1
          /\ alarm_triggered

C14_Witness ==
    /\ Ticked
    /\ prev = "WAIT_FOR_KICKSTAND_UP"
    /\ current = "ALARM_TRIGGERED"
    /\ calls = <<"exit", "enter", "every_enter">>
    /\ nv_writes = 2
    /\ relay
    /\ eeprom = 1

\* C15: entry timestamp.  In every state of the running program
\* state_change_time is the time of the most recent state entry, and a
\* handler that entered a state leaves it at the current time.
C15_EntryTimestamp ==
    Powered =>
        /\ state_change_time = entered_at
        /\ Ran("enter") => state_change_time = now

C15_Witness ==
    /\ Ticked
    /\ prev = "WAIT_FOR_KICKSTAND_UP"
    /\ current = "ALARM_TRIGGERED"
    /\ state_change_time = now
    /\ now # U32(0)

\* C16: arming needs the kickstand down.  A tick from
\* WAIT_FOR_BUTTON_RELEASE ends in ALARM_ARMED only when the kickstand read
\* actuated and the button not actuated; when the kickstand read released it
\* ends in WAIT_FOR_KICKSTAND_DOWN, whatever the button.
C16_ArmingNeedsKickstand ==
    (Ticked /\ prev = "WAIT_FOR_BUTTON_RELEASE") =>
        /\ current = "ALARM_ARMED" => (kickstand /\ ~button)
        /\ ~kickstand => current = "WAIT_FOR_KICKSTAND_DOWN"

C16_Witness ==
    /\ Ticked
    /\ prev = "WAIT_FOR_BUTTON_RELEASE"
    /\ ~kickstand
    /\ ~button
    /\ current = "WAIT_FOR_KICKSTAND_DOWN"

\* C17: the flag records exactly whether the alarm is sounding.  Outside
\* START, ALARM_TRIGGERED and WAIT_FOR_KICKSTAND_UP the stored flag and
\* alarm_triggered are false.
C17_FlagMeansSounding ==
    (Powered /\ current \notin {"START", "ALARM_TRIGGERED",
                                "WAIT_FOR_KICKSTAND_UP"})
        => (eeprom = 0 /\ ~alarm_triggered)

\* C18: context mirrors persistence.  In every state of the running
\* program alarm_triggered is true exactly when the stored byte is nonzero.
C18_ContextMirrorsFlag ==
    Powered => (alarm_triggered <=> eeprom # 0)

C18_Witness ==
    /\ Ticked
    /\ prev = "ALARM_TRIGGERED"
    /\ current = "WAIT_FOR_KICKSTAND_UP"
    /\ alarm_triggered
    /\ eeprom # 0

\* C19: the relay is ON only while sounding.  When the relay is ON the
\* current state is ALARM_TRIGGERED or WAIT_FOR_KICKSTAND_UP.
C19_RelayOnlyWhileSounding ==
    relay => current \in {"ALARM_TRIGGERED", "WAIT_FOR_KICKSTAND_UP"}

\* the auto-reset at 120000 ms, where the loop callback has just set the
\* relay ON
C19_Witness ==
    /\ Ticked
    /\ prev = "ALARM_TRIGGERED"
    /\ current = "ALARM_ARMED"
    /\ since_entry = <<0, 1, 54464>>
    /\ wraps = 0
    /\ ~relay

\* C20: no alarm without arming.  In a run since power-on in which the
\* flag loaded on entering START is false, the tick that enters
\* ALARM_TRIGGERED for the first time starts in ALARM_ARMED, reads the
\* kickstand released, and ALARM_ARMED has been entered before it; after the
\* first tick the state is never START.
C20_NoAlarmWithoutArming ==
    /\ [](Ticked => current # "START")
    /\ [][(IsTick /\ ~start_flag /\ ~sounded /\ current' = "ALARM_TRIGGERED")
             => (current = "ALARM_ARMED" /\ armed_seen /\ ~kickstand')]_vars

C20_Witness ==
    /\ Ticked
    /\ ~start_flag
    /\ sounded
    /\ armed_seen
    /\ prev = "ALARM_ARMED"
    /\ current = "ALARM_TRIGGERED"
    /\ ~kickstand
    /\ ticks = 5

====
